---- MODULE Spec2Model ----
(***************************************************************************)
(* Model of the FDC text preprocessing manager                             *)
(* (src/managers/fdc_preprocess.py, src/utils/config_parser.py).           *)
(*                                                                         *)
(* A Python str is a sequence of one-character strings; a token sequence   *)
(* is a sequence of such texts.  A call that can raise returns a record    *)
(* [err, val]: err = "" when the call returned val, the exception's name   *)
(* otherwise.                                                              *)
(***************************************************************************)
EXTENDS Integers, Sequences, FiniteSets, TLC

\* ------------------------------------------------------------------ bounds
MaxTextLen  == 3   \* length of the texts handed to _map_synonyms
MaxListLen  == 2   \* lines of each stopword file
MaxRows     == 2   \* processed strings handed to get_vocabs
MaxRecords  == 2   \* records handed to preprocess_column

\* ------------------------------------------------------- characters, text
Lowercase   == {"a", "b", "c"}
Uppercase   == {"A", "B"}
Digits      == {"1"}
Whitespace  == {" "}
\* Characters of string.punctuation.
Punctuation == {".", "_"}

\* Python's None (a record that is no str).
None == <<"None">>

Ok(v)     == [err |-> "", val |-> v]
Raise(e)  == [err |-> e, val |-> <<>>]

\* An exception that names what was missing: KeyError(key), and
\* FileNotFoundError with its filename.
RaiseArg(e, arg) == [err |-> e, val |-> <<arg>>]

\* str.lower() on one character.
LowerChar(c) ==
    CASE c = "A" -> "a"
      [] c = "B" -> "b"
      [] OTHER   -> c

\* ord(c): the code point, which orders Python strings.
Ord(c) ==
    CASE c = " " -> 32
      [] c = "." -> 46
      [] c = "1" -> 49
      [] c = "A" -> 65
      [] c = "B" -> 66
      [] c = "_" -> 95
      [] c = "a" -> 97
      [] c = "b" -> 98
      [] c = "c" -> 99

\* The regex class \w: letters, digits and the underscore.
IsWordChar(c) == c \in Lowercase \cup Uppercase \cup Digits \cup {"_"}

Lower(s) == [i \in 1..Len(s) |-> LowerChar(s[i])]

RECURSIVE Concat(_)
Concat(ss) == IF ss = <<>> THEN <<>> ELSE Head(ss) \o Concat(Tail(ss))

\* sep.join(tokens)
RECURSIVE Join(_, _)
Join(tokens, sep) ==
    IF tokens = <<>> THEN <<>>
    ELSE IF Len(tokens) = 1 THEN tokens[1]
    ELSE tokens[1] \o sep \o Join(Tail(tokens), sep)

\* s.split(): the maximal runs of non-whitespace, none of them empty.
RECURSIVE SplitWsAcc(_, _, _)
SplitWsAcc(s, cur, out) ==
    IF s = <<>> THEN (IF cur = <<>> THEN out ELSE Append(out, cur))
    ELSE IF Head(s) \in Whitespace
         THEN SplitWsAcc(Tail(s), <<>>, IF cur = <<>> THEN out ELSE Append(out, cur))
         ELSE SplitWsAcc(Tail(s), Append(cur, Head(s)), out)

SplitWs(s) == SplitWsAcc(s, <<>>, <<>>)

\* s.split(' '): the pieces between single spaces, empty pieces included.
RECURSIVE SplitSpaceAcc(_, _, _)
SplitSpaceAcc(s, cur, out) ==
    IF s = <<>> THEN Append(out, cur)
    ELSE IF Head(s) = " "
         THEN SplitSpaceAcc(Tail(s), <<>>, Append(out, cur))
         ELSE SplitSpaceAcc(Tail(s), Append(cur, Head(s)), out)

SplitSpace(s) == SplitSpaceAcc(s, <<>>, <<>>)

\* re.sub(r'[C]+', rep, s): every maximal run of characters of the class C
\* (a set of characters) becomes rep.
RECURSIVE SubRuns(_, _, _, _)
SubRuns(s, class, rep, inRun) ==
    IF s = <<>> THEN <<>>
    ELSE IF Head(s) \in class
         THEN (IF inRun THEN <<>> ELSE rep) \o SubRuns(Tail(s), class, rep, TRUE)
         ELSE <<Head(s)>> \o SubRuns(Tail(s), class, rep, FALSE)

Range(s) == {s[i] : i \in 1..Len(s)}

\* All sequences over S of length at most n.
RECURSIVE SeqsUpTo(_, _)
SeqsUpTo(S, n) ==
    IF n = 0 THEN {<<>>}
    ELSE LET shorter == SeqsUpTo(S, n - 1)
         IN  shorter \cup {Append(s, x) : s \in {t \in shorter : Len(t) = n - 1}, x \in S}

Min(S) == CHOOSE x \in S : \A y \in S : x <= y

\* A set as a list, in some order (list(a_set)).
RECURSIVE SetToSeq(_)
SetToSeq(S) ==
    IF S = {} THEN <<>>
    ELSE LET x == CHOOSE y \in S : TRUE IN <<x>> \o SetToSeq(S \ {x})

\* Every ordering of a set.
RECURSIVE PermsOf(_)
PermsOf(S) ==
    IF S = {} THEN {<<>>}
    ELSE UNION {{<<x>> \o p : p \in PermsOf(S \ {x})} : x \in S}

\* a < b for Python strings: lexicographic by code point.
RECURSIVE StrLess(_, _)
StrLess(a, b) ==
    IF b = <<>> THEN FALSE
    ELSE IF a = <<>> THEN TRUE
    ELSE IF Ord(Head(a)) # Ord(Head(b)) THEN Ord(Head(a)) < Ord(Head(b))
    ELSE StrLess(Tail(a), Tail(b))

\* ---------------------------------------------------------- ConfigParser
\* A section of the .ini file is the list of its "key = value" lines, in the
\* order they were written; a configuration maps section names to sections.
Entry(k, v) == [key |-> k, value |-> v]

HasOption(config, section, key) ==
    \E i \in 1..Len(config[section]) : config[section][i].key = key

RawValue(config, section, key) ==
    LET i == CHOOSE j \in 1..Len(config[section]) : config[section][j].key = key
    IN  config[section][i].value

\* ConfigParser.getstr: self.config[section][key]
getstr(config, key, section) ==
    IF HasOption(config, section, key)
    THEN Ok(RawValue(config, section, key))
    ELSE RaiseArg("KeyError", key)

\* ConfigParser.getbool: configparser's getboolean
getbool(config, key, section) ==
    IF ~HasOption(config, section, key) THEN Raise("NoOptionError")
    ELSE LET v == RawValue(config, section, key) IN
         IF v \in {"1", "yes", "true", "on"} THEN Ok(TRUE)
         ELSE IF v \in {"0", "no", "false", "off"} THEN Ok(FALSE)
         ELSE Raise("ValueError")

\* ConfigParser.getint: int(value)
getint(config, key, section) ==
    IF ~HasOption(config, section, key) THEN Raise("NoOptionError")
    ELSE LET v == RawValue(config, section, key) IN
         CASE v = "0" -> Ok(0)
           [] v = "1" -> Ok(1)
           [] v = "2" -> Ok(2)
           [] v = "3" -> Ok(3)
           [] v = "10000" -> Ok(10000)
           [] v = "40000000" -> Ok(40000000)
           [] OTHER   -> Raise("ValueError")

\* ConfigParser.getfloat: float(value), as the fraction <<numerator, denominator>>
getfloat(config, key, section) ==
    IF ~HasOption(config, section, key) THEN Raise("NoOptionError")
    ELSE LET v == RawValue(config, section, key) IN
         CASE v = "0"   -> Ok(<<0, 1>>)
           [] v = "0.5" -> Ok(<<1, 2>>)
           [] v = "1"   -> Ok(<<1, 1>>)
           [] OTHER     -> Raise("ValueError")

\* open(path).read(): storage maps the paths that exist to their content.
ReadFile(storage, path) ==
    IF path \in DOMAIN storage THEN Ok(storage[path])
    ELSE RaiseArg("FileNotFoundError", path)

\* --------------------------------------------------------- Synonym Mapper
\* The synonym table is the dict of _load_synonym_map: its items, in the
\* order of the file's rows.
Syn(f, t) == [from |-> f, to |-> t]

\* _load_synonym_map: pd.read_csv(getstr('synonym_map'))['to'].to_dict()
_load_synonym_map(config, storage) ==
    LET path == getstr(config, "synonym_map", "filter") IN
    IF path.err # "" THEN path ELSE ReadFile(storage, path.val)

\* table[key]
DictGet(table, key) ==
    IF \E i \in 1..Len(table) : table[i].from = key
    THEN Ok(table[CHOOSE i \in 1..Len(table) : table[i].from = key].to)
    ELSE RaiseArg("KeyError", key)

\* \b at the gap before text[pos]: exactly one side is a word character.
Boundary(text, pos) ==
    LET before == pos > 1 /\ IsWordChar(text[pos - 1])
        after  == pos <= Len(text) /\ IsWordChar(text[pos])
    IN  before # after

\* One alternative \b<key>\b matched at pos.
AltMatches(text, pos, key) ==
    /\ pos + Len(key) - 1 <= Len(text)
    /\ Boundary(text, pos)
    /\ SubSeq(text, pos, pos + Len(key) - 1) = key
    /\ Boundary(text, pos + Len(key))

\* The length matched at pos by '|'.join(r'\b%s\b' ...): that of the first
\* alternative that matches, -1 when none does.  The join of no alternative
\* is the empty pattern, which matches the empty string everywhere.
MatchAt(text, pos, table) ==
    IF Len(table) = 0 THEN 0
    ELSE LET hits == {i \in 1..Len(table) : AltMatches(text, pos, table[i].from)}
         IN  IF hits = {} THEN -1 ELSE Len(table[Min(hits)].from)

\* re.sub(regex_str, lambda x: table[x.group(0)], text), scanning from pos.
RECURSIVE ReSub(_, _, _)
ReSub(text, pos, table) ==
    IF pos > Len(text) + 1 THEN Ok(<<>>)
    ELSE LET n    == MatchAt(text, pos, table)
             here == IF pos <= Len(text) THEN <<text[pos]>> ELSE <<>>
         IN  IF n < 0
             THEN LET rest == ReSub(text, pos + 1, table)
                  IN  IF rest.err # "" THEN rest ELSE Ok(here \o rest.val)
             ELSE LET rep == DictGet(table, SubSeq(text, pos, pos + n - 1))
                  IN  IF rep.err # "" THEN rep
                      ELSE LET rest == ReSub(text, IF n = 0 THEN pos + 1 ELSE pos + n, table)
                           IN  IF rest.err # "" THEN rest
                               ELSE Ok(rep.val \o (IF n = 0 THEN here ELSE <<>>) \o rest.val)

\* FdcPreprocessManager._map_synonyms
_map_synonyms(text, table) == ReSub(text, 1, table)

\* --------------------------------------------------- Stopword Set Builder
\* gpp.STOPWORDS, gensim's default stopword set (here: three of its words).
STOPWORDS == {<<"a">>, <<"b", "c">>, <<"c", "a", "b">>}

\* The lines of a stopword file: file.read().splitlines()
ReadLines(config, storage, key) ==
    LET path == getstr(config, key, "filter") IN
    IF path.err # "" THEN path ELSE ReadFile(storage, path.val)

\* A slip in the list arithmetic: the removals are taken from the defaults
\* before the additions are appended.
CustomStopwords_RemoveFirst(base, to_add_list, to_remove_list) ==
    LET my_stopwords == SetToSeq(base)
        Kept(x)      == x \notin Range(to_remove_list)
    IN  Range(SelectSeq(my_stopwords, Kept) \o to_add_list)

\* The list arithmetic of _generate_custom_stopwords (lines 66, 91-94).
CustomStopwords(base, to_add_list, to_remove_list) ==
    LET my_stopwords == SetToSeq(base)
        extended     == my_stopwords \o to_add_list
        Kept(x)      == x \notin Range(to_remove_list)
    IN  Range(SelectSeq(extended, Kept))

\* FdcPreprocessManager._generate_custom_stopwords; base is gpp.STOPWORDS.
_generate_custom_stopwords(config, storage, base) ==
    LET to_add_list == ReadLines(config, storage, "stopwords_to_add") IN
    IF to_add_list.err # "" THEN to_add_list
    ELSE LET to_remove_list == ReadLines(config, storage, "stopwords_to_remove") IN
         IF to_remove_list.err # "" THEN to_remove_list
         ELSE Ok(CustomStopwords(base, to_add_list.val, to_remove_list.val))

\* ---------------------------------------------------------------- filters
\* One element of custom_filters: the function appended, with what its
\* closure captured (the synonym table, the stopword set, minsize).
Filter(name, table, stopwords, minsize) ==
    [f |-> name, table |-> table, stopwords |-> stopwords, minsize |-> minsize]

Plain(name) == Filter(name, <<>>, {}, 0)

\* FdcPreprocessManager._custom_remove_stopwords
_custom_remove_stopwords(s, stopwords) ==
    LET Kept(w) == w \notin stopwords
    IN  Join(SelectSeq(SplitWs(s), Kept), <<" ">>)

\* gpp.strip_short(s, minsize)
strip_short(s, minsize) ==
    LET Kept(e) == Len(e) >= minsize
    IN  Join(SelectSeq(SplitWs(s), Kept), <<" ">>)

\* gensim's tokenize(lower=True): the lowercased runs of letters and "_".
Tokenize(s) ==
    LET blanked == [i \in 1..Len(s) |->
                      IF IsWordChar(s[i]) /\ s[i] \notin Digits THEN LowerChar(s[i]) ELSE " "]
    IN  SplitWs(blanked)

\* FdcPreprocessManager._custom_lemmatize: gensim_utils.lemmatize keeps the
\* lemmas of 2 to 15 characters that do not start with "_", as lemma/TAG, and
\* line 113 strips the tags again.  The lemmatizer's lexicon lies outside
\* the repository: every word of this alphabet is its own lemma.
_custom_lemmatize(text) ==
    LET Kept(lemma) == Len(lemma) >= 2 /\ Len(lemma) <= 15 /\ lemma[1] # "_"
    IN  Join(SelectSeq(Tokenize(text), Kept), <<" ">>)

\* f(s) for one element of custom_filters.
ApplyFilter(flt, s) ==
    CASE flt.f = "lower"                      -> Ok(Lower(s))
      [] flt.f = "map_synonym"                -> _map_synonyms(s, flt.table)
      [] flt.f = "strip_punctuation"          -> Ok(SubRuns(s, Punctuation, <<" ">>, FALSE))
      [] flt.f = "strip_multiple_whitespaces" -> Ok(SubRuns(s, Whitespace, <<" ">>, FALSE))
      [] flt.f = "strip_numeric"              -> Ok(SubRuns(s, Digits, <<>>, FALSE))
      [] flt.f = "remove_stopwords"           -> Ok(_custom_remove_stopwords(s, flt.stopwords))
      [] flt.f = "strip_short"                -> Ok(strip_short(s, flt.minsize))
      [] flt.f = "lemmatize"                  -> Ok(_custom_lemmatize(s))

\* for f in filters: s = f(s)
RECURSIVE ApplyFilters(_, _)
ApplyFilters(filters, s) ==
    IF filters = <<>> THEN Ok(s)
    ELSE LET r == ApplyFilter(Head(filters), s)
         IN  IF r.err # "" THEN r ELSE ApplyFilters(Tail(filters), r.val)

\* A preprocess_string that takes None for the empty string.
preprocess_string_none_as_empty(x, filters) ==
    LET r == ApplyFilters(filters, IF x = None THEN <<>> ELSE x)
    IN  IF r.err # "" THEN r ELSE Ok(SplitWs(r.val))

\* gpp.preprocess_string(x, custom_filters): to_unicode(x), which raises on
\* what is neither str nor bytes, then the filters, then split().
preprocess_string(x, filters) ==
    IF x = None THEN Raise("TypeError")
    ELSE LET r == ApplyFilters(filters, x)
         IN  IF r.err # "" THEN r ELSE Ok(SplitWs(r.val))

\* ---------------------------------------------------- Filter Chain Builder
\* The filter each flag stands for, built as the builder builds it.
MakeSynonymFilter(config, storage) ==
    LET map_table == _load_synonym_map(config, storage) IN
    IF map_table.err # "" THEN map_table
    ELSE Ok(Filter("map_synonym", map_table.val, {}, 0))

MakeStopwordFilter(config, storage) ==
    LET stopwords == _generate_custom_stopwords(config, storage, STOPWORDS) IN
    IF stopwords.err # "" THEN stopwords
    ELSE Ok(Filter("remove_stopwords", <<>>, stopwords.val, 0))

MakeShortFilter(config) ==
    LET minsize == getint(config, "strip_short_minsize", "filter") IN
    IF minsize.err # "" THEN minsize
    ELSE Ok(Filter("strip_short", <<>>, {}, minsize.val))

\* One "if self.configparser.getbool(key, section): ... append(...)".
AddIfEnabled(custom_filters, config, key, made) ==
    IF custom_filters.err # "" THEN custom_filters
    ELSE LET flag == getbool(config, key, "filter") IN
         IF flag.err # "" THEN flag
         ELSE IF ~flag.val THEN custom_filters
         ELSE IF made.err # "" THEN made
         ELSE Ok(Append(custom_filters.val, made.val))

\* A slip in the builder: the stopword block stands before the numeric one.
_build_custom_filter_list_swapped(config, storage) ==
    LET f0 == Ok(<<>>)
        f1 == AddIfEnabled(f0, config, "lower", Ok(Plain("lower")))
        f2 == AddIfEnabled(f1, config, "map_synonym", MakeSynonymFilter(config, storage))
        f3 == AddIfEnabled(f2, config, "strip_punctuation", Ok(Plain("strip_punctuation")))
        f4 == AddIfEnabled(f3, config, "strip_multiple_whitespaces",
                           Ok(Plain("strip_multiple_whitespaces")))
        f5 == AddIfEnabled(f4, config, "remove_stopwords", MakeStopwordFilter(config, storage))
        f6 == AddIfEnabled(f5, config, "strip_numeric", Ok(Plain("strip_numeric")))
        f7 == AddIfEnabled(f6, config, "strip_short", MakeShortFilter(config))
        f8 == AddIfEnabled(f7, config, "lemmatize", Ok(Plain("lemmatize")))
    IN  f8

\* FdcPreprocessManager._build_custom_filter_list
_build_custom_filter_list(config, storage) ==
    LET f0 == Ok(<<>>)
        f1 == AddIfEnabled(f0, config, "lower", Ok(Plain("lower")))
        f2 == AddIfEnabled(f1, config, "map_synonym", MakeSynonymFilter(config, storage))
        f3 == AddIfEnabled(f2, config, "strip_punctuation", Ok(Plain("strip_punctuation")))
        f4 == AddIfEnabled(f3, config, "strip_multiple_whitespaces",
                           Ok(Plain("strip_multiple_whitespaces")))
        f5 == AddIfEnabled(f4, config, "strip_numeric", Ok(Plain("strip_numeric")))
        f6 == AddIfEnabled(f5, config, "remove_stopwords", MakeStopwordFilter(config, storage))
        f7 == AddIfEnabled(f6, config, "strip_short", MakeShortFilter(config))
        f8 == AddIfEnabled(f7, config, "lemmatize", Ok(Plain("lemmatize")))
    IN  f8

\* ----------------------------------------------------------- Phrase Model
\* gensim's Phrases with its default delimiter b'_' and default scorer:
\* learn_vocab counts every word and every pair of adjacent words (under
\* the key word_a + "_" + word_b); a pair is a phrase when
\*   (pair_count - min_count) / count_a / count_b * len(vocab) > threshold.
Delimiter == <<"_">>

Bigram(a, b) == a \o Delimiter \o b

\* The vocab keys one sentence counts: its words, then its adjacent pairs.
SentenceKeys(s) ==
    IF Len(s) < 2 THEN s
    ELSE s \o [i \in 1..(Len(s) - 1) |-> Bigram(s[i], s[i + 1])]

CorpusKeys(corpus) == Concat([i \in 1..Len(corpus) |-> SentenceKeys(corpus[i])])

\* vocab[key]
VocabCount(corpus, key) ==
    Cardinality({i \in 1..Len(CorpusKeys(corpus)) : CorpusKeys(corpus)[i] = key})

\* len(vocab)
VocabSize(corpus) == Cardinality(Range(CorpusKeys(corpus)))

\* The score of the pair (a, b) as <<numerator, denominator>>.
Score(m, a, b) ==
    << (VocabCount(m.corpus, Bigram(a, b)) - m.min_count) * VocabSize(m.corpus),
       VocabCount(m.corpus, a) * VocabCount(m.corpus, b) >>

\* score_item(...) > threshold; a pair with a part out of vocab scores -1.
IsPhrase(m, a, b) ==
    /\ VocabCount(m.corpus, a) > 0
    /\ VocabCount(m.corpus, b) > 0
    /\ VocabCount(m.corpus, Bigram(a, b)) > 0
    /\ Score(m, a, b)[1] * m.threshold[2] > m.threshold[1] * Score(m, a, b)[2]

\* model[x]: left to right, a pair that is a phrase becomes one token and
\* the scan goes on behind it.
RECURSIVE ApplyModel(_, _)
ApplyModel(m, x) ==
    IF Len(x) < 2 THEN x
    ELSE IF IsPhrase(m, x[1], x[2])
         THEN <<Bigram(x[1], x[2])>> \o ApplyModel(m, SubSeq(x, 3, Len(x)))
         ELSE <<x[1]>> \o ApplyModel(m, Tail(x))

\* The (phrase, score) rows export_phrases yields for one sentence.
RECURSIVE SentencePhrases(_, _)
SentencePhrases(m, x) ==
    IF Len(x) < 2 THEN <<>>
    ELSE IF IsPhrase(m, x[1], x[2])
         THEN <<[phrase |-> x[1] \o <<" ">> \o x[2], score |-> Score(m, x[1], x[2])]>>
              \o SentencePhrases(m, SubSeq(x, 3, Len(x)))
         ELSE SentencePhrases(m, Tail(x))

\* drop_duplicates(subset='phrase'): the first row of each phrase stays.
RECURSIVE DropDuplicates(_, _)
DropDuplicates(rows, seen) ==
    IF rows = <<>> THEN <<>>
    ELSE IF Head(rows).phrase \in seen THEN DropDuplicates(Tail(rows), seen)
    ELSE <<Head(rows)>> \o DropDuplicates(Tail(rows), seen \cup {Head(rows).phrase})

\* pd_phrase_score of lines 219-224.
PhraseScores(m, corpus) ==
    DropDuplicates(Concat([i \in 1..Len(corpus) |-> SentencePhrases(m, corpus[i])]), {})


\* ------------------------------------------------------------- get_vocabs
\* The list after "vocabs.extend(row.split(' '))" for every row.
VocabTokens(pd_data) == Concat([i \in 1..Len(pd_data) |-> SplitSpace(pd_data[i])])

\* key=str.lower orders a before b.
KeyLess(a, b) == StrLess(Lower(a), Lower(b))

\* A slip in get_vocabs: "vocabs = list(set(vocabs))" left out.
get_vocabs_no_set(pd_data) ==
    LET all == VocabTokens(pd_data)
        arrangements == {[i \in 1..Len(all) |-> all[p[i]]] : p \in PermsOf(1..Len(all))}
    IN  {v \in arrangements :
            \A i \in 1..Len(v) : \A j \in 1..Len(v) : i < j => ~KeyLess(v[j], v[i])}

\* FdcPreprocessManager.get_vocabs: every list it can return.  list(set(..))
\* lists the distinct tokens in an arbitrary order and sorted() is stable, so
\* tokens of equal key come out in any order.
get_vocabs(pd_data) ==
    {v \in PermsOf(Range(VocabTokens(pd_data))) :
        \A i \in 1..Len(v) : \A j \in 1..Len(v) : i < j => ~KeyLess(v[j], v[i])}

\* ------------------------------------------------------------------ state
VARIABLES
    config,          \* self.configparser: the .ini file read at construction
    storage,         \* the files that exist, by path
    call,            \* the method that was called
    args,            \* its arguments
    pc,              \* where the call stands
    ret,             \* what it returned or raised, once it has
    custom_filters,  \* preprocess_column: the filter chain
    sentences,       \* preprocess_column: pd_data after the filters
    model,           \* _generate_phrase: the phrase model in memory
    phrased,         \* _generate_phrase: pd_data after the phrase model
    writes           \* the paths this call has written in full, in order

vars ==
    <<config, storage, call, args, pc, ret, custom_filters, sentences, model, phrased, writes>>

\* A phrase model: the corpus whose counts it holds and its hyperparameters.
PhraseModel(state, corpus, min_count, threshold) ==
    [state |-> state, corpus |-> corpus, min_count |-> min_count, threshold |-> threshold]

NoModel == PhraseModel("none", <<>>, 0, <<0, 1>>)

\* The locals of preprocess_column, before it is called.
NoLocals ==
    /\ custom_filters = <<>>
    /\ sentences = <<>>
    /\ model = NoModel
    /\ phrased = <<>>
    /\ writes = <<>>

Called(method) == call = method /\ pc = "called"

Returned(method) == call = method /\ pc = "returned"

\* The return (or raise) of a method modelled as one step.
Return(r) ==
    /\ pc' = "returned"
    /\ ret' = r
    /\ UNCHANGED <<config, storage, call, args, custom_filters, sentences, model, phrased, writes>>

\* ------------------------------------------------- the files of the config
SynonymTable == <<Syn(<<"a", "b">>, <<"c">>)>>

AddLines    == <<<<"b">>>>
RemoveLines == <<<<"a">>>>

AllFiles ==
    [syn |-> SynonymTable, add |-> AddLines, remove |-> RemoveLines]

Without(files, path) == [p \in (DOMAIN files) \ {path} |-> files[p]]

\* The keys of the [filter] section that are not enable flags.
FilterResources ==
    << Entry("synonym_map", "syn"), Entry("stopwords_to_add", "add"),
       Entry("stopwords_to_remove", "remove"), Entry("strip_short_minsize", "2") >>

\* The enable flags, in the order the builder asks for them.
Flags ==
    << "lower", "map_synonym", "strip_punctuation", "strip_multiple_whitespaces",
       "strip_numeric", "remove_stopwords", "strip_short", "lemmatize" >>

Reverse(s) == [i \in 1..Len(s) |-> s[Len(s) + 1 - i]]

\* Orders in which the flags can stand in the file.
FlagOrders ==
    { Flags, Reverse(Flags),
      << "strip_short", "lower", "lemmatize", "strip_numeric", "map_synonym",
         "remove_stopwords", "strip_multiple_whitespaces", "strip_punctuation" >> }

\* The [filter] section with the flags of `enabled` on, written in `order`.
FilterSection(order, enabled) ==
    [i \in 1..Len(order) |->
        Entry(order[i], IF order[i] \in enabled THEN "true" ELSE "false")]
    \o FilterResources

\* ------------------------------------------ _build_custom_filter_list alone
InitChain ==
    /\ \E order \in FlagOrders : \E enabled \in SUBSET Range(Flags) :
          config = [filter |-> FilterSection(order, enabled), phrase |-> <<>>]
    /\ storage \in {AllFiles, Without(AllFiles, "syn"), Without(AllFiles, "remove")}
    /\ call = "_build_custom_filter_list"
    /\ args = <<>>
    /\ pc = "called"
    /\ ret = Ok(<<>>)
    /\ NoLocals

BuildFilterList ==
    /\ Called("_build_custom_filter_list")
    /\ Return(_build_custom_filter_list(config, storage))

NextChain == BuildFilterList

SpecChain == InitChain /\ [][NextChain]_vars


NamesOf(filters) == [i \in 1..Len(filters) |-> filters[i].f]

Occurrences(s, x) == Cardinality({i \in 1..Len(s) : s[i] = x})

\* The flag as the file states it.
FlagOn(key) ==
    \E i \in 1..Len(config.filter) :
        config.filter[i].key = key /\ config.filter[i].value = "true"

\* The place of a step in the canonical order lowercase, synonym,
\* punctuation, whitespace, numeric, stopwords, short words, lemmatize.
Rank(name) == CHOOSE k \in 1..Len(Flags) : Flags[k] = name

\* C1: whatever flags are enabled and in whatever order the file lists them,
\* the chain _build_custom_filter_list returns holds exactly one step per
\* enabled flag, none for a disabled flag, and its steps stand in the
\* canonical order.
C1_CanonicalChain ==
    (Returned("_build_custom_filter_list") /\ ret.err = "") =>
        LET chain == NamesOf(ret.val) IN
        /\ \A k \in 1..Len(Flags) :
              Occurrences(chain, Flags[k]) = IF FlagOn(Flags[k]) THEN 1 ELSE 0
        /\ \A i \in 1..Len(chain) : \A j \in 1..Len(chain) :
              i < j => Rank(chain[i]) < Rank(chain[j])

\* C1 witness: all eight flags enabled, listed in the file in the reverse of
\* the canonical order, and the chain was returned.
C1_Witness ==
    /\ Returned("_build_custom_filter_list")
    /\ ret.err = ""
    /\ Len(ret.val) = Len(Flags)
    /\ config.filter[1].key = "lemmatize"

\* ----------------------------------------- _generate_custom_stopwords alone
Words == {<<"a">>, <<"b", "c">>, <<"c">>}

StopwordConfig ==
    [filter |-> FilterSection(Flags, {"remove_stopwords"}), phrase |-> <<>>]

InitStopwords ==
    /\ config = StopwordConfig
    /\ \E A \in SeqsUpTo(Words, MaxListLen) : \E R \in SeqsUpTo(Words, MaxListLen) :
          storage = [syn |-> SynonymTable, add |-> A, remove |-> R]
    /\ call = "_generate_custom_stopwords"
    /\ args \in [base : SUBSET Words]
    /\ pc = "called"
    /\ ret = Ok(<<>>)
    /\ NoLocals

GenerateStopwords ==
    /\ Called("_generate_custom_stopwords")
    /\ Return(_generate_custom_stopwords(config, storage, args.base))

NextStopwords == GenerateStopwords

SpecStopwords == InitStopwords /\ [][NextStopwords]_vars


\* C2: for any base set B, add-list A and remove-list R,
\* _generate_custom_stopwords returns exactly (B \cup A) \ R.
C2_StopwordSet ==
    Returned("_generate_custom_stopwords") =>
        /\ ret.err = ""
        /\ ret.val = (args.base \cup Range(storage.add)) \ Range(storage.remove)

\* C2 witness: a word stands in both A and R, a word of B stands in R, a word
\* of A survives, and the set was returned.
C2_Witness ==
    /\ Returned("_generate_custom_stopwords")
    /\ Range(storage.add) \cap Range(storage.remove) # {}
    /\ (args.base \ Range(storage.add)) \cap Range(storage.remove) # {}
    /\ Range(storage.add) \cap ret.val # {}

\* ------------------------------------------------------ _map_synonyms alone
SynAlphabet == {"a", "b", " "}

SynTables ==
    { <<>>,
      <<Syn(<<"a">>, <<"c">>)>>,
      <<Syn(<<"a">>, <<"b">>), Syn(<<"b">>, <<"a">>)>>,
      <<Syn(<<"a", " ", "b">>, <<"c">>)>>,
      <<Syn(<<"a">>, <<"a", "b">>), Syn(<<"a", " ", "b">>, <<"c">>)>> }

InitSynonyms ==
    /\ config = [filter |-> FilterSection(Flags, {"map_synonym"}), phrase |-> <<>>]
    /\ storage = AllFiles
    /\ call = "_map_synonyms"
    /\ args \in [text : SeqsUpTo(SynAlphabet, MaxTextLen), table : SynTables]
    /\ pc = "called"
    /\ ret = Ok(<<>>)
    /\ NoLocals

MapSynonyms ==
    /\ Called("_map_synonyms")
    /\ Return(_map_synonyms(args.text, args.table))

NextSynonyms == MapSynonyms

SpecSynonyms == InitSynonyms /\ [][NextSynonyms]_vars


\* A key of the table occurs in the text as a whole word.
WholeWordKey(text, table) ==
    \E i \in 1..Len(table) : \E pos \in 1..Len(text) : AltMatches(text, pos, table[i].from)

\* C8 as the spec states it: for any table, the empty one included,
\* _map_synonyms returns a text; a text without a whole-word key is returned
\* unchanged; {a: c} turns "a b" into "c b" and leaves "ab" alone.
C8_WholeWordReplace ==
    Returned("_map_synonyms") =>
        /\ ret.err = ""
        /\ ~WholeWordKey(args.text, args.table) => ret.val = args.text
        /\ (args.table = <<Syn(<<"a">>, <<"c">>)>> /\ args.text = <<"a", " ", "b">>)
              => ret.val = <<"c", " ", "b">>
        /\ (args.table = <<Syn(<<"a">>, <<"c">>)>> /\ args.text = <<"a", "b">>)
              => ret.val = <<"a", "b">>

\* --------------------------------------------------------- get_vocabs alone
\* Processed strings as preprocess_column joins them: tokens, one space
\* between two, and the empty string for a record without tokens.
VocabRows ==
    { <<>>, <<"b">>, <<"a", " ", "b">>, <<"B", " ", "c">>, <<"c", " ", "B">>,
      <<"b", " ", "a">>, <<"A", " ", "a", " ", "b">> }

InitVocabs ==
    /\ config = [filter |-> FilterSection(Flags, {}), phrase |-> <<>>]
    /\ storage = AllFiles
    /\ call = "get_vocabs"
    /\ args \in [pd_data : SeqsUpTo(VocabRows, MaxRows)]
    /\ pc = "called"
    /\ ret = Ok(<<>>)
    /\ NoLocals

GetVocabs ==
    /\ Called("get_vocabs")
    /\ \E vocabs \in get_vocabs(args.pd_data) : Return(Ok(vocabs))

NextVocabs == GetVocabs

SpecVocabs == InitVocabs /\ [][NextVocabs]_vars


\* The tokens of the rows, split on whitespace.
RowTokens(pd_data) == UNION {Range(SplitWs(pd_data[i])) : i \in 1..Len(pd_data)}

\* C7 as the spec states it: the vocabulary is de-duplicated
\* case-insensitively, holds only tokens of the rows, represents every token,
\* and ["a b", "B c"] gives ["a", "b", "c"].
C7_CaseInsensitiveDedup ==
    Returned("get_vocabs") =>
        /\ \A i \in 1..Len(ret.val) : \A j \in 1..Len(ret.val) :
              i # j => Lower(ret.val[i]) # Lower(ret.val[j])
        /\ Range(ret.val) \subseteq RowTokens(args.pd_data)
        /\ \A t \in RowTokens(args.pd_data) :
              \E i \in 1..Len(ret.val) : Lower(ret.val[i]) = Lower(t)
        /\ args.pd_data = << <<"a", " ", "b">>, <<"B", " ", "c">> >>
              => ret.val = << <<"a">>, <<"b">>, <<"c">> >>

\* C7, amended: the vocabulary holds each distinct piece of the rows once
\* (pieces are compared exactly, and split at single spaces, so an empty row
\* gives the empty piece), ordered by the lowercased piece.
C7_ExactDedupSortedByLower ==
    Returned("get_vocabs") =>
        /\ \A i \in 1..Len(ret.val) : \A j \in 1..Len(ret.val) :
              i # j => ret.val[i] # ret.val[j]
        /\ Range(ret.val) = Range(VocabTokens(args.pd_data))
        /\ \A i \in 1..Len(ret.val) : \A j \in 1..Len(ret.val) :
              i < j => ~StrLess(Lower(ret.val[j]), Lower(ret.val[i]))

\* C7 witness: ["a b", "B c"] returned with both "b" and "B" in it.
C7_Witness ==
    /\ Returned("get_vocabs")
    /\ args.pd_data = << <<"a", " ", "b">>, <<"B", " ", "c">> >>
    /\ ret.val = << <<"a">>, <<"B">>, <<"b">>, <<"c">> >>

\* ------------------------------------------------------ preprocess_column
\* The [phrase] section: phrase generation off; on; on with the key
\* phrase_dump_filename left out of the file.
PhraseHyper ==
    << Entry("min_count", "1"), Entry("threshold", "0.5"), Entry("max_vocab_size", "40000000"),
       Entry("progress_per", "10000"), Entry("scoring", "default") >>

PhraseSections ==
    { <<Entry("generate_phrase", "false"), Entry("phrase_model", "model"),
        Entry("phrase_dump_filename", "dump")>> \o PhraseHyper,
      <<Entry("generate_phrase", "true"), Entry("phrase_model", "model"),
        Entry("phrase_dump_filename", "dump")>> \o PhraseHyper,
      <<Entry("generate_phrase", "true"), Entry("phrase_model", "model")>> \o PhraseHyper }

\* The [filter] sections: no filter, each filter alone, the three of the
\* spec's end-to-end example, all eight; and one whose synonym map names a
\* file that does not exist.
FilterChoices ==
    {{}} \cup {{f} : f \in Range(Flags)} \cup {Range(Flags)}
    \cup {{"lower", "strip_punctuation", "remove_stopwords"}}

FilterSections ==
    {FilterSection(Flags, enabled) : enabled \in FilterChoices}
    \cup { [i \in 1..Len(Flags) |-> Entry(Flags[i], IF Flags[i] = "map_synonym" THEN "true" ELSE "false")]
           \o <<Entry("synonym_map", "nosuchfile")>> }

\* A phrase model persisted by an earlier run.
PersistedModel ==
    PhraseModel("trained", << <<<<"a">>, <<"b">>>>, <<<<"a">>, <<"b">>>> >>, 1, <<1, 2>>)

\* What a write that broke off leaves at the path.
Truncated == PhraseModel("truncated", <<>>, 0, <<0, 1>>)

\* The records of a column: None, "", "a b a b", "A b." and "ab 1 a".
Records ==
    { None, <<>>, <<"a", " ", "b", " ", "a", " ", "b">>, <<"A", " ", "b", ".">>,
      <<"a", "b", " ", "1", " ", "a">> }

Init ==
    /\ config \in [filter : FilterSections, phrase : PhraseSections]
    /\ storage \in {AllFiles, [p \in (DOMAIN AllFiles) \cup {"model"} |->
                                  IF p = "model" THEN PersistedModel ELSE AllFiles[p]]}
    /\ call = "preprocess_column"
    /\ args \in [pd_data : SeqsUpTo(Records, MaxRecords), load_model : BOOLEAN]
    /\ pc = "called"
    /\ ret = Ok(<<>>)
    /\ NoLocals

InColumn == call = "preprocess_column"

\* An exception leaves preprocess_column.
Fail(r) ==
    /\ pc' = "raised"
    /\ ret' = [err |-> r.err, val |-> r.val]

\* Line 244: custom_filters = self._build_custom_filter_list()
BuildFilters ==
    /\ InColumn /\ pc = "called"
    /\ LET built == _build_custom_filter_list(config, storage) IN
       IF built.err # ""
       THEN Fail(built) /\ UNCHANGED custom_filters
       ELSE /\ custom_filters' = built.val
            /\ pc' = "filter"
            /\ UNCHANGED ret
    /\ UNCHANGED <<config, storage, call, args, sentences, model, phrased, writes>>

\* An apply that puts each new value in front of the ones before it.
ApplyNext_in_front(done, value) == <<value>> \o done

\* Series.apply: the value of the next row goes to the next row of the result.
ApplyNext(done, value) == Append(done, value)

\* Lines 247-249, one row: gpp.preprocess_string(x, custom_filters)
FilterRecord ==
    /\ InColumn /\ pc = "filter"
    /\ Len(sentences) < Len(args.pd_data)
    /\ LET x == args.pd_data[Len(sentences) + 1]
           tokens == preprocess_string(x, custom_filters)
       IN  IF tokens.err # ""
           THEN Fail(tokens) /\ UNCHANGED sentences
           ELSE /\ sentences' = ApplyNext(sentences, tokens.val)
                /\ UNCHANGED <<pc, ret>>
    /\ UNCHANGED <<config, storage, call, args, custom_filters, model, phrased, writes>>

\* Line 252: every row is filtered and _generate_phrase is entered.
AtGeneratePhrase == InColumn /\ pc = "filter" /\ Len(sentences) = Len(args.pd_data)

\* The early return of lines 178-180 lost: phrase generation always on.
generate_phrase_always == Ok(TRUE)

\* Line 178: self.configparser.getbool('generate_phrase', section)
generate_phrase == getbool(config, "generate_phrase", "phrase")

\* Lines 178-180: phrase generation is off and pd_data is returned as it is.
SkipPhrase ==
    /\ AtGeneratePhrase
    /\ generate_phrase.err = "" /\ ~generate_phrase.val
    /\ phrased' = sentences
    /\ pc' = "join"
    /\ UNCHANGED <<config, storage, call, args, ret, custom_filters, sentences, model, writes>>

\* A load that goes on with an empty model when the file does not exist.
LoadModel_missing_is_empty ==
    /\ AtGeneratePhrase
    /\ generate_phrase.err = "" /\ generate_phrase.val
    /\ args.load_model
    /\ model' = IF "model" \in DOMAIN storage THEN storage["model"]
                ELSE PhraseModel("trained", <<>>, 1, <<1, 2>>)
    /\ pc' = "apply"
    /\ UNCHANGED <<config, storage, call, args, ret, custom_filters, sentences, phrased, writes>>

\* Lines 182-184: Phraser.load(model_filepath)
LoadModel ==
    /\ AtGeneratePhrase
    /\ generate_phrase.err = "" /\ generate_phrase.val
    /\ args.load_model
    /\ LET model_filepath == getstr(config, "phrase_model", "phrase")
           loaded == IF model_filepath.err # "" THEN model_filepath
                     ELSE ReadFile(storage, model_filepath.val)
       IN  IF loaded.err # ""
           THEN Fail(loaded) /\ UNCHANGED model
           ELSE /\ model' = loaded.val
                /\ pc' = "apply"
                /\ UNCHANGED ret
    /\ UNCHANGED <<config, storage, call, args, custom_filters, sentences, phrased, writes>>

\* The hyperparameters of lines 200-204, read before Phrases() runs.
Hyperparameters ==
    LET min_count == getint(config, "min_count", "phrase")
        threshold == getfloat(config, "threshold", "phrase")
        max_vocab == getint(config, "max_vocab_size", "phrase")
        progress  == getint(config, "progress_per", "phrase")
        scoring   == getstr(config, "scoring", "phrase")
    IN  IF min_count.err # "" THEN min_count
        ELSE IF threshold.err # "" THEN threshold
        ELSE IF max_vocab.err # "" THEN max_vocab
        ELSE IF progress.err # "" THEN progress
        ELSE IF scoring.err # "" THEN scoring
        ELSE Ok(PhraseModel("training", <<>>, min_count.val, threshold.val))

\* A streaming Phrases(): ready once the first sentence is counted.
CorpusConsumed_first(corpus) == Len(corpus) >= 1 \/ Len(sentences) = 0

\* Phrases() has counted every sentence it was given.
CorpusConsumed(corpus) == Len(corpus) = Len(sentences)

\* The model and the place of the call once `corpus` is counted.
Learned(m, corpus) ==
    /\ model' = [m EXCEPT !.corpus = corpus,
                          !.state = IF CorpusConsumed(corpus) THEN "trained" ELSE "training"]
    /\ pc' = IF CorpusConsumed(corpus) THEN "apply" ELSE "train"

\* Lines 195-204: sentences = pd_data.tolist(); Phrases(sentences, ...) starts.
StartTraining ==
    /\ AtGeneratePhrase
    /\ generate_phrase.err = "" /\ generate_phrase.val
    /\ ~args.load_model
    /\ IF Hyperparameters.err # ""
       THEN Fail(Hyperparameters) /\ UNCHANGED model
       ELSE Learned(Hyperparameters.val, <<>>) /\ UNCHANGED ret
    /\ UNCHANGED <<config, storage, call, args, custom_filters, sentences, phrased, writes>>

\* Phrases.learn_vocab, one sentence.
LearnSentence ==
    /\ InColumn /\ pc = "train"
    /\ Learned(model, Append(model.corpus, sentences[Len(model.corpus) + 1]))
    /\ UNCHANGED <<config, storage, call, args, ret, custom_filters, sentences, phrased, writes>>

\* Lines 188-190 and 208-210, one row: model[x]
ApplyRecord ==
    /\ InColumn /\ pc = "apply"
    /\ Len(phrased) < Len(sentences)
    /\ phrased' = ApplyNext(phrased, ApplyModel(model, sentences[Len(phrased) + 1]))
    /\ UNCHANGED <<config, storage, call, args, pc, ret, custom_filters, sentences, model, writes>>

Applied == InColumn /\ pc = "apply" /\ Len(phrased) = Len(sentences)

\* path written with content, in full.
Write(path, content) ==
    /\ storage' = [p \in (DOMAIN storage) \cup {path} |-> IF p = path THEN content ELSE storage[p]]
    /\ writes' = Append(writes, path)

\* A write that fails: nothing is written, or the file is left truncated.
WriteFails(path) ==
    /\ \/ storage' = storage
       \/ storage' = [p \in (DOMAIN storage) \cup {path} |->
                         IF p = path THEN Truncated ELSE storage[p]]
    /\ writes' = writes

\* model.save() left out: the export is written, the model is not.
SaveModel_left_out ==
    /\ Applied /\ ~args.load_model
    /\ pc' = "dump"
    /\ UNCHANGED <<config, storage, call, args, ret, custom_filters, sentences, model, phrased, writes>>

\* Lines 213-216: model.save(model_filepath)
SaveModel ==
    /\ Applied /\ ~args.load_model
    /\ LET model_filepath == getstr(config, "phrase_model", "phrase") IN
       IF model_filepath.err # ""
       THEN Fail(model_filepath) /\ UNCHANGED <<storage, writes>>
       ELSE \/ Write(model_filepath.val, model) /\ pc' = "dump" /\ UNCHANGED ret
            \/ WriteFails(model_filepath.val) /\ Fail(Raise("OSError"))
    /\ UNCHANGED <<config, call, args, custom_filters, sentences, model, phrased>>

\* Lines 219-229: the phrases and scores, then to_csv(export_filepath)
DumpPhrases ==
    /\ InColumn /\ pc = "dump"
    /\ LET pd_phrase_score == PhraseScores(model, sentences)
           export_filepath == getstr(config, "phrase_dump_filename", "phrase")
       IN  IF export_filepath.err # ""
           THEN Fail(export_filepath) /\ UNCHANGED <<storage, writes>>
           ELSE \/ Write(export_filepath.val, pd_phrase_score) /\ pc' = "join" /\ UNCHANGED ret
                \/ WriteFails(export_filepath.val) /\ Fail(Raise("OSError"))
    /\ UNCHANGED <<config, call, args, custom_filters, sentences, model, phrased>>

\* _generate_phrase has returned pd_data.
PhraseReturned == InColumn /\ (pc = "join" \/ (Applied /\ args.load_model))

\* Lines 255-257: ' '.join(x) for every row, and the return.
JoinRecords ==
    /\ PhraseReturned
    /\ ret' = Ok([i \in 1..Len(phrased) |-> Join(phrased[i], <<" ">>)])
    /\ pc' = "returned"
    /\ UNCHANGED <<config, storage, call, args, custom_filters, sentences, model, phrased, writes>>

Next ==
    \/ BuildFilters
    \/ FilterRecord
    \/ SkipPhrase
    \/ LoadModel
    \/ StartTraining
    \/ LearnSentence
    \/ ApplyRecord
    \/ SaveModel
    \/ DumpPhrases
    \/ JoinRecords

Spec == Init /\ [][Next]_vars

\* ----------------------------------------------- claims on preprocess_column
\* generate_phrase as the file states it.
PhraseOn ==
    \E i \in 1..Len(config.phrase) : config.phrase[i] = Entry("generate_phrase", "true")

\* Apply mode with phrase generation on and no persisted model.
ModelMissing ==
    /\ InColumn
    /\ args.load_model
    /\ PhraseOn
    /\ "model" \notin DOMAIN storage

\* C3 as the spec states it: in apply mode with phrase generation on and no
\* persisted model, no record is run through the filter chain.
C3_FailsBeforeAnyRecord == ModelMissing => sentences = <<>>

\* C3, amended: in apply mode with phrase generation on and no persisted
\* model, preprocess_column returns no result, applies the phrase model to no
\* record and writes nothing; the missing model is found only after the
\* filter chain has been applied to every record.
C3_FailsAfterFiltering ==
    ModelMissing =>
        /\ pc \notin {"apply", "join", "returned"}
        /\ phrased = <<>>
        /\ writes = <<>>
        /\ (pc = "raised" /\ ret = RaiseArg("FileNotFoundError", "model"))
              => Len(sentences) = Len(args.pd_data)

\* C3 witness: the missing model was reported with two records filtered.
C3_Witness ==
    /\ ModelMissing
    /\ pc = "raised"
    /\ ret = RaiseArg("FileNotFoundError", "model")
    /\ Len(sentences) = 2
    /\ sentences[1] # <<>>

TrainMode == InColumn /\ ~args.load_model /\ PhraseOn

\* C4 as the spec states it: in train mode, once _generate_phrase has
\* returned or failed, the model and the export are both written or neither.
C4_AtomicWrites ==
    (TrainMode /\ pc \in {"raised", "join", "returned"}) =>
        ("model" \in Range(writes) <=> "dump" \in Range(writes))

\* C4, amended: in train mode the model is saved before the export is
\* written; when _generate_phrase returns both are written, and when it
\* fails the export is never there without the model, while the model can be
\* there without its export.
C4_ModelBeforeExport ==
    TrainMode =>
        /\ writes \in {<<>>, <<"model">>, <<"model", "dump">>}
        /\ "model" \in Range(writes) => storage["model"] = model
        /\ pc \in {"join", "returned"} =>
              /\ writes = <<"model", "dump">>
              /\ storage["dump"] = PhraseScores(model, sentences)

\* C4 witness: the lookup of phrase_dump_filename failed after the model was
\* saved, a phrase having been found.
C4_Witness ==
    /\ TrainMode
    /\ pc = "raised"
    /\ ret = RaiseArg("KeyError", "phrase_dump_filename")
    /\ writes = <<"model">>
    /\ phrased # sentences

\* The tokens the configured filter chain makes of one record.
Filtered(x) ==
    preprocess_string(x, _build_custom_filter_list(config, storage).val).val

\* C5: when preprocess_column returns, the result has one string per record
\* and the string at position i comes from the record at position i: with
\* phrase generation off it is the joined tokens the filter chain makes of
\* that record alone, with it on the phrase model applied to those tokens.
C5_SameLengthAndOrder ==
    (InColumn /\ pc = "returned") =>
        /\ Len(ret.val) = Len(args.pd_data)
        /\ \A i \in 1..Len(ret.val) :
              ret.val[i] = Join(IF PhraseOn
                                THEN ApplyModel(model, Filtered(args.pd_data[i]))
                                ELSE Filtered(args.pd_data[i]), <<" ">>)

\* C5 witness: two records returned, phrase generation off, with different
\* non-empty results.
C5_Witness ==
    /\ InColumn /\ pc = "returned"
    /\ ~PhraseOn
    /\ Len(ret.val) = 2
    /\ ret.val[1] # <<>> /\ ret.val[2] # <<>>
    /\ ret.val[1] # ret.val[2]

\* What preprocess_column returns for `data` when it returns: the filter
\* chain on every record, the phrase model of the mode, the join.
ExpectedModel(data) ==
    IF args.load_model THEN storage["model"]
    ELSE [Hyperparameters.val EXCEPT !.state = "trained",
                                     !.corpus = [i \in 1..Len(data) |-> Filtered(data[i])]]

Expected(data) ==
    [i \in 1..Len(data) |->
        Join(IF PhraseOn THEN ApplyModel(ExpectedModel(data), Filtered(data[i]))
             ELSE Filtered(data[i]), <<" ">>)]

\* The rows of `rows` at the positions where `data` holds no record of `drop`.
RECURSIVE RowsWhere(_, _, _)
RowsWhere(rows, data, drop) ==
    IF rows = <<>> THEN <<>>
    ELSE IF Head(data) \in drop THEN RowsWhere(Tail(rows), Tail(data), drop)
    ELSE <<Head(rows)>> \o RowsWhere(Tail(rows), Tail(data), drop)

RecordsOutside(data, drop) == LET Valid(x) == x \notin drop IN SelectSeq(data, Valid)

\* C6 as the spec states it: a null or empty record does not abort the
\* batch; its result is empty and the other records' results are what they
\* would be without it.
C6_InvalidRecordTolerated ==
    InColumn =>
        /\ pc = "raised" => ret.err # "TypeError"
        /\ pc = "returned" =>
              /\ \A i \in 1..Len(ret.val) :
                    args.pd_data[i] \in {None, <<>>} => ret.val[i] = <<>>
              /\ RowsWhere(ret.val, args.pd_data, {None, <<>>})
                    = Expected(RecordsOutside(args.pd_data, {None, <<>>}))

\* C6, amended: an empty-string record does not abort the batch: when
\* preprocess_column returns, its result is the empty string and the other
\* records' results are what they would be without it.  A null record aborts
\* the batch: no result is returned, and the TypeError is raised when the
\* filter stage reaches it.
C6_EmptyToleratedNullAborts ==
    InColumn =>
        /\ pc = "returned" =>
              /\ \A i \in 1..Len(ret.val) : args.pd_data[i] = <<>> => ret.val[i] = <<>>
              /\ RowsWhere(ret.val, args.pd_data, {<<>>}) = Expected(RecordsOutside(args.pd_data, {<<>>}))
        /\ None \in Range(args.pd_data) => pc # "returned"
        /\ (pc = "raised" /\ ret.err = "TypeError") =>
              args.pd_data[Len(sentences) + 1] = None

\* C6 witness: training on an empty record and a record in which a pair is
\* merged, returned.
C6_Witness ==
    /\ TrainMode /\ pc = "returned"
    /\ <<>> \in Range(args.pd_data)
    /\ \E i \in 1..Len(ret.val) : ret.val[i] # <<>>
    /\ \E i \in 1..Len(phrased) : phrased[i] # sentences[i]

\* C9: the phrase model is applied to a sequence only once it is trained:
\* in train mode on the whole corpus, that is on every filtered record, in
\* apply mode as loaded from the persisted model.
C9_TrainedBeforeApplied ==
    (InColumn /\ PhraseOn /\ (pc = "apply" \/ phrased # <<>>)) =>
        /\ model.state = "trained"
        /\ ~args.load_model =>
              /\ model.corpus = sentences
              /\ Len(sentences) = Len(args.pd_data)
        /\ args.load_model => model = storage["model"]

\* C9 witness: in train mode the model was applied to two sequences and
\* merged a pair.
C9_Witness ==
    /\ TrainMode
    /\ Len(phrased) = 2
    /\ phrased # sentences

\* C10: with phrase generation off _generate_phrase hands the sequences back
\* unchanged, and neither then nor in apply mode is anything written to
\* storage or the model retrained.
C10_OnlyTrainingWrites ==
    [][ (InColumn /\ (~PhraseOn \/ args.load_model)) =>
          /\ storage' = storage
          /\ writes' = <<>>
          /\ model'.state \notin {"training"}
          /\ (~PhraseOn /\ pc' \in {"join", "returned"}) =>
                (phrased' = sentences' /\ model' = NoModel)
          /\ (PhraseOn /\ pc' \in {"apply", "returned"}) => model' = storage["model"]
      ]_vars

\* C10 witness: apply mode returned, the loaded model having merged a pair.
C10_Witness ==
    /\ InColumn /\ pc = "returned"
    /\ PhraseOn /\ args.load_model
    /\ phrased # sentences
    /\ writes = <<>>

====
